---- MODULE Spec2Model ----
(***************************************************************************)
(* Model of scheduler/denormalise.py: the functions that flatten the       *)
(* nested conference definition into index-addressed lists and derive the  *)
(* unavailability, clash and unsuitability constraint maps.                *)
(*                                                                         *)
(* Python values are modelled as follows.                                  *)
(*   list        a sequence; Python position p is element p + 1            *)
(*   dict        a function; the empty dict is << >>                       *)
(*   datetime    a number of seconds (date * 86400 + seconds of the day)   *)
(*   '%d-%b-%Y %H:%M' string   the record [date, hh, mm]                   *)
(*   Slot        the record [venue, starts_at, duration, session, capacity]*)
(*               compared field by field, as the namedtuple is             *)
(*   event dict  the record [title, duration, tags, person, event_type]    *)
(***************************************************************************)
EXTENDS Integers, Sequences, FiniteSets, TLC

VARIABLES
    venues,                    \* the nested venue definition
    events_definition,         \* the list of event dicts
    unavailability_definition, \* dict person -> list of periods
    clashes_definition,        \* dict person -> list of people (the caller's object)
    types_and_slots_out,       \* result of types_and_slots(venues)
    pc,                        \* "define" until the slot list is built, then "resolve"
    ret,                       \* what the last resolver call returned
    ncalls,                    \* number of clashes() calls made so far
    given_clashes,             \* history: clashes_definition as first supplied
    entry_clashes,             \* history: clashes_definition on entry to the last clashes() call
    first_clashes              \* history: what the first clashes() call returned

vars == <<venues, events_definition, unavailability_definition,
          clashes_definition, types_and_slots_out, pc, ret, ncalls,
          given_clashes, entry_clashes, first_clashes>>

(***************************************************************************)
(* Bounds of the model.                                                    *)
(***************************************************************************)
MaxEvents == 3
MaxSlots == 2
MaxPeriods == 1
MaxClashLen == 1
MaxCalls == 2

(***************************************************************************)
(* Generic list and dict helpers.                                          *)
(***************************************************************************)
Range(list) == {list[i] : i \in 1..Len(list)}

Positions(list) == 0..(Len(list) - 1)

At(list, p) == list[p + 1]

SeqsUpTo(S, n) == UNION {[1..k -> S] : k \in 0..n}

RECURSIVE Flat(_)
Flat(lists) ==
    IF Len(lists) = 0 THEN << >>
    ELSE Head(lists) \o Flat(Tail(lists))

RECURSIVE KeyOrder(_)
KeyOrder(keys) ==
    IF keys = {} THEN << >>
    ELSE LET k == CHOOSE x \in keys : TRUE
         IN  <<k>> \o KeyOrder(keys \ {k})

Put(d, k, v) == [x \in (DOMAIN d) \cup {k} |-> IF x = k THEN v ELSE d[x]]

RECURSIVE dict(_)
dict(items) ==
    IF Len(items) = 0 THEN << >>
    ELSE LET last == items[Len(items)]
         IN  Put(dict(SubSeq(items, 1, Len(items) - 1)), last[1], last[2])

\* index with positions counted from one
index_from_one(list, x) ==
    CHOOSE i \in 1..Len(list) : list[i] = x /\ \A j \in 1..(i - 1) : list[j] # x

index(list, x) ==
    (CHOOSE i \in 1..Len(list) : list[i] = x /\ \A j \in 1..(i - 1) : list[j] # x) - 1

(***************************************************************************)
(* Timestamps.                                                             *)
(***************************************************************************)
strftime(t) ==
    [date |-> t \div 86400, hh |-> (t % 86400) \div 3600, mm |-> (t % 3600) \div 60]

to_datetime(datetime_as_string) ==
    datetime_as_string.date * 86400 + datetime_as_string.hh * 3600
        + datetime_as_string.mm * 60

(***************************************************************************)
(* types_and_slots: one {event_type, slot} item per slot specification, in *)
(* the order venues -> days -> sessions -> slots.  Each nested dict is a   *)
(* sequence of <<key, value>> pairs in insertion order.                    *)
(***************************************************************************)
Slot(venue, day, session, slot) ==
    [event_type |-> slot.event_type,
     slot |-> [venue |-> venue,
               starts_at |-> strftime(day * 86400 + slot.starts_at),
               duration |-> slot.duration,
               session |-> <<day, session>>,
               capacity |-> slot.capacity]]

types_and_slots(venues_) ==
    Flat([v \in 1..Len(venues_) |->
      Flat([d \in 1..Len(venues_[v][2]) |->
        Flat([s \in 1..Len(venues_[v][2][d][2]) |->
          [i \in 1..Len(venues_[v][2][d][2][s][2]) |->
            Slot(venues_[v][1], venues_[v][2][d][1], venues_[v][2][d][2][s][1],
                 venues_[v][2][d][2][s][2][i])]])])])

slot_list(tas) == [i \in 1..Len(tas) |-> tas[i].slot]

(***************************************************************************)
(* unavailability: event index -> indexes of the slots that lie inside one *)
(* of the owner's periods.  The dict comprehension visits the people of    *)
(* the definition (KeyOrder: some order; every item written under one key  *)
(* carries the same value, so the order does not show in the result) and,  *)
(* for each, the events of that person in list order; a later item with an *)
(* equal key replaces the earlier one.                                     *)
(***************************************************************************)
within(period, slot) ==
    /\ period.unavailable_from <= to_datetime(slot.starts_at)
    /\ period.unavailable_until >=
           to_datetime(slot.starts_at) + slot.duration * 60

unavailable_slots(slots, periods) ==
    Flat([p \in 1..Len(periods) |->
        LET hit == SelectSeq(slots, LAMBDA slot : within(periods[p], slot))
        IN  [i \in 1..Len(hit) |-> index(slots, hit[i])]])

\* the comprehension without its "if event['person'] == person"
events_of_anyone(events, person) == events

events_of(events, person) ==
    SelectSeq(events, LAMBDA event : event.person = person)

unavailability(events, slots, definition) ==
    LET people == KeyOrder(DOMAIN definition)
    IN  dict(Flat([k \in 1..Len(people) |->
            LET mine == events_of(events, people[k])
            IN  [i \in 1..Len(mine) |->
                    <<index(events, mine[i]),
                      unavailable_slots(slots, definition[people[k]])>>]]))

(***************************************************************************)
(* clashes.  The two loops rewrite the caller's dict; the comprehension    *)
(* then reads the rewritten dict.                                          *)
(***************************************************************************)
add_missing(events, definition) ==
    [person \in (DOMAIN definition) \cup {events[i].person : i \in 1..Len(events)} |->
        IF person \in DOMAIN definition THEN definition[person] ELSE <<person>>]

\* the second loop without its append
add_self_clash_skipped(definition) ==
    [person \in DOMAIN definition |-> definition[person]]

add_self_clash(definition) ==
    [person \in DOMAIN definition |->
        IF person \in Range(definition[person])
        THEN definition[person]
        ELSE Append(definition[person], person)]

\* count started before the first loop and incremented in it as well
count_with_missing(events, definition) ==
    Cardinality({events[i].person : i \in 1..Len(events)} \ DOMAIN definition)
    + Cardinality({person \in DOMAIN definition :
                      person \notin Range(definition[person])})

count(events, definition) ==
    Cardinality({person \in DOMAIN add_missing(events, definition) :
                    person \notin Range(add_missing(events, definition)[person])})

normalise(events, definition) == add_self_clash(add_missing(events, definition))

clashing_events(events, event, clashing_people) ==
    Flat([c \in 1..Len(clashing_people) |->
        LET hit == SelectSeq(events, LAMBDA t :
                       /\ t.person = clashing_people[c]
                       /\ index(events, event) # index(events, t))
        IN  [i \in 1..Len(hit) |-> index(events, hit[i])]])

clashes(events, definition) ==
    LET people == KeyOrder(DOMAIN definition)
    IN  dict(Flat([k \in 1..Len(people) |->
            LET mine == events_of(events, people[k])
            IN  [i \in 1..Len(mine) |->
                    <<index(events, mine[i]),
                      clashing_events(events, mine[i], definition[people[k]])>>]]))

(***************************************************************************)
(* unsuitability: event index -> positions of the slots of another type.   *)
(***************************************************************************)
unsuitable_slots(tas, event) ==
    LET numbered == [i \in 1..Len(tas) |-> <<i - 1, tas[i]>>]
        hit == SelectSeq(numbered, LAMBDA it : it[2].event_type # event.event_type)
    IN  [i \in 1..Len(hit) |-> hit[i][1]]

unsuitability(tas, events) ==
    dict([e \in 1..Len(events) |->
            <<index(events, events[e]), unsuitable_slots(tas, events[e])>>])

(***************************************************************************)
(* Inputs.                                                                 *)
(***************************************************************************)
People == {"alice", "bob"}

Event(person, title, event_type) ==
    [title |-> title, duration |-> 30, tags |-> << >>, person |-> person,
     event_type |-> event_type]

AliceTalk == Event("alice", "Intro", "talk")
AliceWorkshop == Event("alice", "Lab", "workshop")
BobTalk == Event("bob", "Intro", "talk")

SlotSpec(event_type, starts_at) ==
    [event_type |-> event_type, starts_at |-> starts_at, duration |-> 30,
     capacity |-> 100]

\* 09:00, 09:00:30 (formatted 09:00 as well) and 09:45
SlotSpecs == {SlotSpec("talk", 32400), SlotSpec("workshop", 32430),
              SlotSpec("talk", 35100)}

Day == 17465

Period(from, until) ==
    [unavailable_from |-> Day * 86400 + from,
     unavailable_until |-> Day * 86400 + until]

\* 09:00-10:00 and 09:45-10:15
Periods == {Period(32400, 36000), Period(35100, 36900)}

Venues(am, pm) ==
    << <<"Hall A", << <<Day, << <<"AM", am>>, <<"PM", pm>> >> >> >> >> >>

VenueDefs ==
    {Venues(sl[1], sl[2]) :
        sl \in {x \in SeqsUpTo(SlotSpecs, MaxSlots) \X SeqsUpTo(SlotSpecs, MaxSlots) :
                   Len(x[1]) + Len(x[2]) <= MaxSlots}}

Dicts(keys, values) == UNION {[ks -> values] : ks \in SUBSET keys}

DefaultVenues == Venues(<<SlotSpec("talk", 32400), SlotSpec("talk", 35100)>>, << >>)
DefaultUnavailability == [person \in {"alice"} |-> <<Period(32400, 36000)>>]
DefaultClashes == [person \in {"bob"} |-> <<"alice">>]

NoReturn == [fn |-> "none", map |-> << >>, count |-> 0]

InitRest ==
    /\ types_and_slots_out = << >>
    /\ pc = "define"
    /\ ret = NoReturn
    /\ ncalls = 0
    /\ given_clashes = clashes_definition
    /\ entry_clashes = clashes_definition
    /\ first_clashes = NoReturn

InitUnavailability ==
    /\ venues \in VenueDefs
    /\ events_definition \in SeqsUpTo({AliceTalk, BobTalk}, MaxEvents)
    /\ unavailability_definition \in Dicts({"alice"}, SeqsUpTo(Periods, MaxPeriods))
    /\ clashes_definition = DefaultClashes
    /\ InitRest

InitClashes ==
    /\ venues = DefaultVenues
    /\ events_definition \in SeqsUpTo({AliceTalk, AliceWorkshop, BobTalk}, MaxEvents)
    /\ unavailability_definition = DefaultUnavailability
    /\ clashes_definition \in Dicts(People, SeqsUpTo(People, MaxClashLen))
    /\ InitRest

InitUnsuitability ==
    /\ venues \in VenueDefs
    /\ events_definition \in SeqsUpTo({AliceTalk, AliceWorkshop}, MaxEvents)
    /\ unavailability_definition = DefaultUnavailability
    /\ clashes_definition = DefaultClashes
    /\ InitRest

Init == InitUnavailability \/ InitClashes \/ InitUnsuitability

(***************************************************************************)
(* Operations.                                                             *)
(***************************************************************************)
types_and_slots_call ==
    /\ pc = "define"
    /\ types_and_slots_out' = types_and_slots(venues)
    /\ pc' = "resolve"
    /\ UNCHANGED <<venues, events_definition, unavailability_definition,
                   clashes_definition, ret, ncalls, given_clashes,
                   entry_clashes, first_clashes>>

unavailability_call ==
    /\ pc = "resolve"
    /\ ret' = [fn |-> "unavailability",
               map |-> unavailability(events_definition,
                                      slot_list(types_and_slots_out),
                                      unavailability_definition),
               count |-> 0]
    /\ UNCHANGED <<venues, events_definition, unavailability_definition,
                   clashes_definition, types_and_slots_out, pc, ncalls,
                   given_clashes, entry_clashes, first_clashes>>

clashes_call ==
    /\ pc = "resolve"
    /\ ncalls < MaxCalls
    /\ entry_clashes' = clashes_definition
    /\ clashes_definition' = normalise(events_definition, clashes_definition)
    /\ ret' = [fn |-> "clashes",
               map |-> clashes(events_definition, clashes_definition'),
               count |-> count(events_definition, clashes_definition)]
    /\ ncalls' = ncalls + 1
    /\ first_clashes' = IF ncalls = 0 THEN ret' ELSE first_clashes
    /\ UNCHANGED <<venues, events_definition, unavailability_definition,
                   types_and_slots_out, pc, given_clashes>>

unsuitability_call ==
    /\ pc = "resolve"
    /\ ret' = [fn |-> "unsuitability",
               map |-> unsuitability(types_and_slots_out, events_definition),
               count |-> 0]
    /\ UNCHANGED <<venues, events_definition, unavailability_definition,
                   clashes_definition, types_and_slots_out, pc, ncalls,
                   given_clashes, entry_clashes, first_clashes>>

Next ==
    \/ types_and_slots_call
    \/ unavailability_call
    \/ clashes_call
    \/ unsuitability_call

Spec == Init /\ [][Next]_vars

(***************************************************************************)
(* Vocabulary of the properties.                                           *)
(***************************************************************************)
slots == slot_list(types_and_slots_out)

owner(e) == At(events_definition, e).person

owners == {events_definition[i].person : i \in 1..Len(events_definition)}

start(i) == to_datetime(At(slots, i).starts_at)

finish(i) == start(i) + At(slots, i).duration * 60

Remove(definition, person) ==
    [p \in (DOMAIN definition) \ {person} |-> definition[p]]

Without(list, person) == SelectSeq(list, LAMBDA x : x # person)

Unlist(definition, p, person) ==
    [q \in DOMAIN definition |->
        IF q = p THEN Without(definition[q], person) ELSE definition[q]]

\* C1: after unavailability(), every event position whose owner has an entry
\* in the unavailability definition is a key of the returned map, and its
\* list holds exactly the positions of the slots that start at or after
\* unavailable_from and end at or before unavailable_until of one of the
\* owner's periods.
C1_UnavailabilityExact ==
    ret.fn = "unavailability" =>
        \A e \in Positions(events_definition) :
            owner(e) \in DOMAIN unavailability_definition =>
                /\ e \in DOMAIN ret.map
                /\ Range(ret.map[e]) =
                       {i \in Positions(slots) :
                           \E period \in Range(unavailability_definition[owner(e)]) :
                               /\ period.unavailable_from <= start(i)
                               /\ finish(i) <= period.unavailable_until}

\* C2: after clashes(), every event position is a key of the returned map and
\* its list holds exactly the other positions whose owner is in the
\* normalised clashing-people list of the event's owner.
C2_ClashesExact ==
    ret.fn = "clashes" =>
        \A e \in Positions(events_definition) :
            /\ e \in DOMAIN ret.map
            /\ Range(ret.map[e]) =
                   {t \in Positions(events_definition) \ {e} :
                       owner(t) \in Range(clashes_definition[owner(e)])}

\* C3 (as claimed): the count returned by clashes() is the number of owners
\* that had no entry and received one plus the number of entries the person
\* was appended to; with an empty definition and a single event the count is
\* 1 and the event's clash list is empty.
C3_CountsEveryInjection ==
    ret.fn = "clashes" =>
        /\ ret.count =
               Cardinality(owners \ DOMAIN entry_clashes)
               + Cardinality({p \in DOMAIN entry_clashes :
                                 p \notin Range(entry_clashes[p])})
        /\ (Len(events_definition) = 1 /\ DOMAIN entry_clashes = {}) =>
               (ret.count = 1 /\ ret.map[0] = << >>)

\* C3 (amended): the count returned by clashes() is the number of entries
\* present on entry to which the person was appended; an owner that had no
\* entry and received [person] is not counted, so with an empty definition
\* the count is 0.  An event whose owner had no entry and owns no other event
\* has an empty clash list.
C3_CountsAppendsOnly ==
    ret.fn = "clashes" =>
        /\ ret.count =
               Cardinality({p \in DOMAIN entry_clashes :
                               p \notin Range(entry_clashes[p])})
        /\ DOMAIN entry_clashes = {} => ret.count = 0
        /\ \A e \in Positions(events_definition) :
               (/\ owner(e) \notin DOMAIN entry_clashes
                /\ \A t \in Positions(events_definition) : owner(t) = owner(e) => t = e) =>
                   (e \in DOMAIN ret.map /\ ret.map[e] = << >>)

C3_Witness ==
    /\ ret.fn = "clashes"
    /\ owners \ DOMAIN entry_clashes # {}
    /\ \E p \in DOMAIN entry_clashes : p \notin Range(entry_clashes[p])
    /\ ret.count = 1

\* C4: after unsuitability(), every event position is a key of the returned
\* map and its list holds exactly the slot positions whose event type
\* differs from the event's.
C4_UnsuitabilityExact ==
    ret.fn = "unsuitability" =>
        \A e \in Positions(events_definition) :
            /\ e \in DOMAIN ret.map
            /\ Range(ret.map[e]) =
                   {i \in Positions(types_and_slots_out) :
                       At(types_and_slots_out, i).event_type
                           # At(events_definition, e).event_type}

\* C5: once clashes() has run, every person who owns an event, and every
\* person who had an entry before the call, has an entry in the clash
\* definition whose list contains that person.
C5_Reflexive ==
    ncalls > 0 =>
        \A p \in owners \cup DOMAIN entry_clashes \cup DOMAIN given_clashes :
            /\ p \in DOMAIN clashes_definition
            /\ p \in Range(clashes_definition[p])

C5_Witness ==
    /\ ncalls > 0
    /\ owners \ DOMAIN given_clashes # {}
    /\ \E p \in DOMAIN given_clashes : p \notin Range(given_clashes[p])

\* C6: after clashes(), if A's entry lists B, B's entry does not list A and
\* A # B, then every event of A has every event of B in its clash list and
\* no event of B has an event of A in its clash list.
C6_Asymmetric ==
    ret.fn = "clashes" =>
        \A A \in DOMAIN clashes_definition, B \in DOMAIN clashes_definition :
            (/\ A # B
             /\ B \in Range(clashes_definition[A])
             /\ A \notin Range(clashes_definition[B])) =>
                \A a \in Positions(events_definition),
                   b \in Positions(events_definition) :
                    (owner(a) = A /\ owner(b) = B) =>
                        /\ a \in DOMAIN ret.map
                        /\ b \in Range(ret.map[a])
                        /\ b \in DOMAIN ret.map => a \notin Range(ret.map[b])

\* C7: when clashes() has returned, the caller's clash definition has the
\* keys and the lists it had before the call.
C7_CallerMappingUntouched ==
    ncalls > 0 => clashes_definition = entry_clashes

\* C8: every resolver call returns what it would have returned as the first
\* call on the inputs as supplied; a later clashes() call returns the pair
\* the first one returned.
C8_HistoryIndependent ==
    /\ ret.fn = "clashes" =>
           /\ ret.map = first_clashes.map
           /\ ret.count = first_clashes.count
           /\ ret.count = count(events_definition, given_clashes)
    /\ ret.fn = "unavailability" =>
           ret.map = unavailability(events_definition, slots,
                                    unavailability_definition)
    /\ ret.fn = "unsuitability" =>
           ret.map = unsuitability(types_and_slots_out, events_definition)

\* C9: every key of a returned map is a position of the event list, every
\* value of an unavailability or unsuitability list is a position of the slot
\* list and every value of a clash list is a position of the event list; and
\* no resolver call changes the event list or the slot list.
IndexesValid ==
    ret.fn # "none" =>
        /\ DOMAIN ret.map \subseteq Positions(events_definition)
        /\ \A k \in DOMAIN ret.map :
               Range(ret.map[k]) \subseteq
                   IF ret.fn = "clashes"
                   THEN Positions(events_definition)
                   ELSE Positions(types_and_slots_out)

C9_ValidPositions ==
    /\ []IndexesValid
    /\ [][pc = "resolve" =>
            /\ events_definition' = events_definition
            /\ types_and_slots_out' = types_and_slots_out]_vars

C9_Witness ==
    /\ ret.fn = "unavailability"
    /\ \E k \in DOMAIN ret.map : Len(ret.map[k]) = Len(slots) /\ Len(slots) > 1
    /\ Len(events_definition) > 1

\* C10 (as claimed): an entry for a person without events changes nothing:
\* unavailability() returns the map it returns without the entry, clashes()
\* returns the clash map and the count it returns without the entry, and the
\* same holds for removing a person without events from another person's
\* clashing-people list.
C10_ZeroEventEntryIgnored ==
    /\ ret.fn = "unavailability" =>
           \A z \in (DOMAIN unavailability_definition) \ owners :
               ret.map = unavailability(events_definition, slots,
                                        Remove(unavailability_definition, z))
    /\ ret.fn = "clashes" =>
           /\ \A z \in (DOMAIN entry_clashes) \ owners :
                  /\ ret.map = clashes(events_definition,
                                       normalise(events_definition,
                                                 Remove(entry_clashes, z)))
                  /\ ret.count = count(events_definition, Remove(entry_clashes, z))
           /\ \A z \in People \ owners : \A p \in (DOMAIN entry_clashes) \ {z} :
                  /\ ret.map = clashes(events_definition,
                                       normalise(events_definition,
                                                 Unlist(entry_clashes, p, z)))
                  /\ ret.count = count(events_definition,
                                       Unlist(entry_clashes, p, z))

\* C10 (amended): an entry for a person without events raises no error and
\* does not change the returned maps: unavailability() and clashes() return
\* the map they return without the entry.  The count clashes() returns is the
\* count without the entry when the entry's list names the person, and one
\* more when it does not.  Removing a person without events from another
\* person's clashing-people list changes neither the clash map nor the count.
C10_ZeroEventEntryKeepsMaps ==
    /\ ret.fn = "unavailability" =>
           \A z \in (DOMAIN unavailability_definition) \ owners :
               ret.map = unavailability(events_definition, slots,
                                        Remove(unavailability_definition, z))
    /\ ret.fn = "clashes" =>
           /\ \A z \in (DOMAIN entry_clashes) \ owners :
                  /\ ret.map = clashes(events_definition,
                                       normalise(events_definition,
                                                 Remove(entry_clashes, z)))
                  /\ ret.count =
                         count(events_definition, Remove(entry_clashes, z))
                         + (IF z \in Range(entry_clashes[z]) THEN 0 ELSE 1)
           /\ \A z \in People \ owners : \A p \in (DOMAIN entry_clashes) \ {z} :
                  /\ ret.map = clashes(events_definition,
                                       normalise(events_definition,
                                                 Unlist(entry_clashes, p, z)))
                  /\ ret.count = count(events_definition,
                                       Unlist(entry_clashes, p, z))

C10_Witness ==
    /\ ret.fn = "clashes"
    /\ Len(events_definition) > 1
    /\ \E z \in (DOMAIN entry_clashes) \ owners :
           /\ z \notin Range(entry_clashes[z])
           /\ \E p \in (DOMAIN entry_clashes) \ {z} : z \in Range(entry_clashes[p])

====
